---- MODULE Spec2Model ----
(***************************************************************************)
(* bbb-player.py: the download-and-materialize pipeline (downloadScript,   *)
(* downloadFiles, downloadSlides, createFolder) as a state machine.        *)
(*                                                                         *)
(* The filesystem under downloadedMeetings/ and the module-level flag      *)
(* smartDlEnabled are the persistent state; one invocation of              *)
(* downloadScript at a time walks through its steps (the source is         *)
(* strictly sequential).  Remote responses, a failing player copy and a    *)
(* kill of the process are choices of the environment.                     *)
(***************************************************************************)
EXTENDS Integers, Sequences, FiniteSets, TLC

(* ------------------------------ bounds --------------------------------- *)
\* longest input URL, in tokens
MaxUrlLen == 3
\* largest number of text records (slides) of one metadata document
MaxSlides == 2
\* number of downloadScript invocations in one behaviour
MaxRuns == 2

(* --------------------------- program constants ------------------------- *)
filesForDL ==
    << "captions.json", "cursor.xml", "deskshare.xml",
       "presentation/deskshare.png", "metadata.xml", "panzooms.xml",
       "presentation_text.json", "shapes.svg", "slides_new.xml",
       "video/webcams.webm", "video/webcams.mp4",
       "deskshare/deskshare.webm", "deskshare/deskshare.mp4" >>

\* mutant: the video directory is not provisioned
foldersToCreate_NoVideo == << "", "deskshare", "presentation" >>

\* the sub-directories downloadScript provisions, "" being the session root
foldersToCreate == << "", "video", "deskshare", "presentation" >>

(* ------------------------------ inputs --------------------------------- *)
\* two recordings on the remote server
SessionIds == {"id1", "id2"}
\* meetingNameWanted: "" is falsy (no name given)
WantedNames == {"", "A"}
\* the keys a metadata document can have, in document order: no element, one,
\* two of different names, or two whose names differ in a trailing slash only
DocKeys == { << >>, << "e1" >>, << "e1", "e2" >>, << "e1", "e1/" >> }

\* A URL is a sequence of tokens: "ver" is a run matching \d+\.\d+, "/" a
\* slash, a session id a run matching [0-9a-f]{40}-\d{13}, "x" any other text.
Tokens == {"ver", "/", "x"} \cup SessionIds
Urls == UNION { [1..n -> Tokens] : n \in 0..MaxUrlLen }

\* the number of text records of a document, over its elements
RECURSIVE Sum(_)
Sum(s) == IF s = << >> THEN 0 ELSE s[1] + Sum(Tail(s))

\* A parsed presentation_text.json, as the sequence of its items in document
\* order: << element, noSlides >>, noSlides being the length of the element's
\* array of text records (the code uses nothing else of the array).
DocsOf(keys) ==
    { [j \in 1..Len(keys) |-> << keys[j], c[j] >>] :
        c \in { n \in [1..Len(keys) -> 0..MaxSlides] : Sum(n) <= MaxSlides } }

Docs == UNION { DocsOf(keys) : keys \in DocKeys }

\* A local presentation_text.json holds nothing (no file), bytes that
\* json.load rejects, or a document.  The two non-documents are written as
\* sequences no document equals, so that the three kinds compare.
NoFile == << << "", -1 >> >>

BadJson == << << "", -2 >> >>

IsDoc(content) == content \notin {NoFile, BadJson}

\* every folderPath downloadScript can derive, relative to downloadedMeetings/
Dirs == (WantedNames \ {""}) \cup SessionIds

VARIABLES
    smartDlEnabled,  \* module flag: pySmartDL was imported
    sentinel,        \* [Dirs -> BOOLEAN]: rec_fully_downloaded.txt is in the directory
    ptext,           \* [Dirs -> NoFile, BadJson or a document]: the local presentation_text.json
    folders,         \* the directories that exist, as component tuples
    runs,            \* downloadScript invocations so far
    pc,              \* where the current invocation stands
    meetingId,       \* matchesURL.group(2), "" before it is known
    folderPath,      \* the run's local directory, "" before it is known
    i,               \* loop index of the loop the run is in
    el,              \* index of the element the expansion phase is at
    data,            \* the parsed metadata document held by downloadSlides
    attempts,        \* history: relative paths whose fetch was entered, in order
    requests,        \* history: relative paths actually requested from the remote
    mkdirs,          \* history: createFolder calls of this run, in order
    lastOutcome,     \* how the latest fetch ended
    lastLog,         \* what the latest fetch's handlers logged
    ptextOutcome,    \* history: how this run's fetch of presentation_text.json ended
    error,           \* where the exception that ended the run was raised
    sentinelAtStart, \* history: the sentinel check of line 276 found the file
    retry,           \* history: an earlier run for folderPath was terminated
    validURL,        \* history: the input URL carried a version and a session id
    filesReturned,   \* history: downloadFiles returned in this run
    slidesReturned,  \* history: downloadSlides returned in this run
    completed,       \* history: directories some run took through both phases
    terminated,      \* history: directories whose latest run was cut short
    mirrored         \* history: [Dirs -> the session whose run wrote the sentinel]

vars == << smartDlEnabled, sentinel, ptext, folders, runs, pc, meetingId,
           folderPath, i, el, data, attempts, requests, mkdirs, lastOutcome,
           lastLog, ptextOutcome, error, sentinelAtStart, retry, validURL,
           filesReturned, slidesReturned, completed, terminated, mirrored >>

(* ------------------------------ helpers -------------------------------- *)
Min(S) == CHOOSE x \in S : \A y \in S : x <= y

IsPrefix(s, t) == Len(s) <= Len(t) /\ \A n \in 1..Len(s) : s[n] = t[n]

\* the path ends in a separator
EndsWithSlash(path) == path # "" /\ SubSeq(path, Len(path), Len(path)) = "/"

\* a path without its trailing separator, as the filesystem resolves it
StripSlash(path) == IF EndsWithSlash(path) THEN SubSeq(path, 1, Len(path) - 1) ELSE path

\* os.path.join(a, b) for a relative b: a separator is put between the two
\* unless a is empty or already ends in one
join(a, b) ==
    IF a = "" THEN b
    ELSE IF EndsWithSlash(a) THEN a \o b
    ELSE a \o "/" \o b

\* index of presentation_text.json in the manifest
PTextIndex == CHOOSE k \in 1..Len(filesForDL) : filesForDL[k] = "presentation_text.json"

(* ---------------------- Session Identifier Resolver -------------------- *)
\* mutant: the slash after the version group is missing from the pattern
VersionAt_NoSlash(url, p) == p + 1 <= Len(url) /\ url[p] = "ver"

\* re.search(r"/?(\d+\.\d+)/.*?([0-9a-f]{40}-\d{13})/?", inputURL): a version
\* token directly followed by a slash, and a session id anywhere after it.
VersionAt(url, p) == p + 1 <= Len(url) /\ url[p] = "ver" /\ url[p + 1] = "/"

IdsAfter(url, p) == { q \in (p + 2)..Len(url) : url[q] \in SessionIds }

MatchStarts(url) == { p \in 1..Len(url) : VersionAt(url, p) /\ IdsAfter(url, p) # {} }

matchesURL(url) == MatchStarts(url) # {}

\* group(2) of the leftmost match; .*? is lazy, so the first id after the version
group2(url) == url[Min(IdsAfter(url, Min(MatchStarts(url))))]

\* lines 268-273: the wanted name when it is truthy, else the meeting id
FolderPathOf(name, id) == IF name # "" THEN name ELSE id

\* mutant: the check looks for a file name that is never written
AlreadyDownloaded_Never(d) == FALSE

\* line 276: os.path.isfile(folderPath/rec_fully_downloaded.txt)
AlreadyDownloaded(d) == sentinel[d]

(* -------------------------- Directory Provisioner ---------------------- *)
Prefixes(path) == { SubSeq(path, 1, n) : n \in 1..Len(path) }

\* os.path.join(folderPath, x): joining "" names the directory itself
JoinDir(d, sub) == IF sub = "" THEN << d >> ELSE << d, sub >>

\* createFolder: os.makedirs raises OSError when the path exists, which is
\* logged and swallowed; otherwise the path and its missing parents appear.
createFolder(fs, path) == IF path \in fs THEN fs ELSE fs \cup Prefixes(path)

\* mutant: no except clause, the OSError of an existing path escapes
createFolderRaises_Unhandled(fs, path) == path \in fs

\* lines 150-153: the OSError of os.makedirs is caught and logged at debug
\* level; createFolder raises nothing
createFolderRaises(fs, path) == FALSE

(* ------------------------------ fetching ------------------------------- *)
\* What the remote (and the transport) can answer to one request.
Responses == {"200", "404", "HTTPError", "Exception"}

\* The try body of lines 65-71: with pySmartDL the request is made and ends as
\* the remote answers.  Without it, the argument bar.on_urlretrieve if bar else
\* None reads the name bar, which is local to downloadScript and undefined
\* here: NameError is raised before urlretrieve is called.
RequestIssued == smartDlEnabled

TryBody(resp) == IF smartDlEnabled THEN resp ELSE "Exception"

\* mutant: the except Exception clause is missing
CaughtFile_HTTPOnly(outcome) == outcome \in {"404", "HTTPError"}

\* lines 72-77: except urllib.error.HTTPError catches 404 and every other
\* status; except Exception catches the rest.  Nothing is re-raised.
CaughtFile(outcome) == outcome \in {"404", "HTTPError"} \/ outcome = "Exception"

\* lines 74-77: the 404 branch warns, the HTTPError branch is silent for any
\* other status, the Exception branch logs the traceback.
LogFile(outcome) ==
    CASE outcome = "404" -> "warning"
      [] outcome = "Exception" -> "exception"
      [] OTHER -> "none"

\* mutant: only the 404 is handled, anything else is re-raised
CaughtSlide_Only404(outcome) == outcome = "404"

\* lines 109-115: the same handlers around a slide fetch
CaughtSlide(outcome) == outcome \in {"404", "HTTPError"} \/ outcome = "Exception"

LogSlide(outcome) ==
    CASE outcome = "404" -> "warning"
      [] outcome = "Exception" -> "exception"
      [] OTHER -> "none"

\* lines 139-145: the same handlers around a thumbnail fetch
CaughtThumb(outcome) == outcome \in {"404", "HTTPError"} \/ outcome = "Exception"

LogThumb(outcome) ==
    CASE outcome = "404" -> "warning"
      [] outcome = "Exception" -> "exception"
      [] OTHER -> "none"

\* mutant: an entry with a local copy is skipped
ShouldAttempt_SkipExisting(d, k) == ~(k = PTextIndex /\ ptext[d] # NoFile)

\* lines 58-64: every manifest entry is fetched, whatever is on disk
ShouldAttempt(d, k) == TRUE

\* downloadURL of a slide and of a thumbnail, relative to baseURL (lines
\* 93-94, 123-124): plain string concatenation
SlidePath(e, n) == "presentation/" \o e \o "/slide-" \o ToString(n) \o ".png"

ThumbPath(e, n) == "presentation/" \o e \o "/thumbnails/thumb-" \o ToString(n) \o ".png"

\* savePath of a slide and of a thumbnail, relative to basePath (lines 95-96,
\* 125-126): os.path.join of the components
SlideSavePath(e, n) == join(join("presentation", e), "slide-" \o ToString(n) \o ".png")

ThumbSavePath(e, n) ==
    join(join(join("presentation", e), "thumbnails"), "thumb-" \o ToString(n) \o ".png")

(* ------------------------------- Init ---------------------------------- *)
NoRun ==
    /\ meetingId = ""
    /\ folderPath = ""
    /\ i = 0
    /\ el = 0
    /\ data = << >>
    /\ attempts = << >>
    /\ requests = << >>
    /\ mkdirs = << >>
    /\ lastOutcome = "none"
    /\ lastLog = "none"
    /\ ptextOutcome = "none"
    /\ error = "none"
    /\ sentinelAtStart = FALSE
    /\ retry = FALSE
    /\ validURL = TRUE
    /\ filesReturned = FALSE
    /\ slidesReturned = FALSE

Init ==
    /\ smartDlEnabled \in BOOLEAN
    /\ sentinel = [d \in Dirs |-> FALSE]
    /\ ptext = [d \in Dirs |-> NoFile]
    /\ folders = {}
    /\ runs = 0
    /\ pc = "idle"
    /\ NoRun
    /\ completed = {}
    /\ terminated = {}
    /\ mirrored = [d \in Dirs |-> ""]

(* --------------------------- process start ----------------------------- *)
Running == {"mkdirs", "files", "open", "element", "slide", "thumbdir", "thumb",
            "copy", "mark"}

\* lines 26-31 run when the module is loaded: the flag is set once per process
StartProcess ==
    /\ pc \notin Running
    /\ smartDlEnabled' \in BOOLEAN
    /\ pc' = "idle"
    /\ meetingId' = "" /\ folderPath' = ""
    /\ i' = 0 /\ el' = 0 /\ data' = << >>
    /\ attempts' = << >> /\ requests' = << >> /\ mkdirs' = << >>
    /\ lastOutcome' = "none" /\ lastLog' = "none"
    /\ ptextOutcome' = "none"
    /\ error' = "none"
    /\ sentinelAtStart' = FALSE /\ retry' = FALSE /\ validURL' = TRUE
    /\ filesReturned' = FALSE /\ slidesReturned' = FALSE
    /\ UNCHANGED << sentinel, mirrored, ptext, folders, runs, completed, terminated >>

(* ---------------------------- downloadScript --------------------------- *)
\* The pattern as the data model states it: a dotted version, a slash, and
\* later a session id.  Recorded at the call for the claims about bad URLs.
ValidSessionURL(url) ==
    \E p, q \in 1..Len(url) :
        /\ p + 1 < q
        /\ url[p] = "ver"
        /\ url[p + 1] = "/"
        /\ url[q] \in SessionIds

\* line 254: if matchesURL and len(matchesURL.groups()) == 2
Resolved(url) == matchesURL(url)

\* lines 249-287 up to the first createFolder: resolve the URL, exit(1) on no
\* match, derive folderPath, and short-circuit when the sentinel is there.
downloadScript(inputURL, meetingNameWanted) ==
    /\ pc \in {"idle", "done", "fatal", "exited"}
    /\ runs < MaxRuns
    /\ runs' = runs + 1
    /\ validURL' = ValidSessionURL(inputURL)
    /\ el' = 0 /\ data' = << >>
    /\ attempts' = << >> /\ requests' = << >> /\ mkdirs' = << >>
    /\ lastOutcome' = "none" /\ lastLog' = "none"
    /\ ptextOutcome' = "none"
    /\ filesReturned' = FALSE /\ slidesReturned' = FALSE
    /\ IF ~Resolved(inputURL)
       THEN /\ pc' = "exited"
            /\ error' = "exit"
            /\ meetingId' = "" /\ folderPath' = "" /\ i' = 0
            /\ sentinelAtStart' = FALSE /\ retry' = FALSE
       ELSE LET id == group2(inputURL)
                d == FolderPathOf(meetingNameWanted, id)
            IN  /\ meetingId' = id
                /\ folderPath' = d
                /\ error' = "none"
                /\ sentinelAtStart' = sentinel[d]
                /\ retry' = (d \in terminated)
                /\ pc' = IF AlreadyDownloaded(d) THEN "done" ELSE "mkdirs"
                /\ i' = IF AlreadyDownloaded(d) THEN 0 ELSE 1
    /\ UNCHANGED << smartDlEnabled, sentinel, mirrored, ptext, folders, completed, terminated >>

\* one call createFolder(path), after which the caller goes `onward`; an
\* exception createFolder let through would end the run
Provision(path, onward) ==
    /\ mkdirs' = Append(mkdirs, path)
    /\ IF createFolderRaises(folders, path)
       THEN /\ pc' = "fatal"
            /\ error' = "mkdir"
            /\ terminated' = terminated \cup {folderPath}
            /\ UNCHANGED << folders, i, el, slidesReturned, completed >>
       ELSE /\ folders' = createFolder(folders, path)
            /\ onward
            /\ error' = error
            /\ terminated' = terminated

\* lines 283-287: one createFolder call of the provisioning loop
CreateFolders ==
    /\ pc = "mkdirs"
    /\ Provision(JoinDir(folderPath, foldersToCreate[i]),
                 /\ IF i = Len(foldersToCreate)
                    THEN pc' = "files" /\ i' = 1
                    ELSE pc' = pc /\ i' = i + 1
                 /\ UNCHANGED << el, slidesReturned, completed >>)
    /\ UNCHANGED << smartDlEnabled, sentinel, mirrored, ptext, runs, meetingId, folderPath,
                    data, attempts, requests, lastOutcome, lastLog, ptextOutcome,
                    sentinelAtStart, retry, validURL, filesReturned >>

(* ----------------------------- downloadFiles --------------------------- *)
\* What presentation_text.json holds after a fetch into it: a 200 stores what
\* the remote served (a document, or bytes json.load rejects), a transfer that
\* breaks may leave a truncated file, anything else leaves the file alone.
PTextAfter(d, resp) ==
    IF ~RequestIssued THEN {ptext[d]}
    ELSE CASE resp = "200" -> Docs \cup {BadJson}
           [] resp = "Exception" -> {ptext[d], BadJson}
           [] OTHER -> {ptext[d]}

\* lines 58-77: one iteration of the manifest loop
DownloadFile ==
    /\ pc = "files"
    /\ \E resp \in Responses :
        LET file == filesForDL[i]
            outcome == TryBody(resp)
            last == i = Len(filesForDL)
        IN  IF ShouldAttempt(folderPath, i)
            THEN /\ attempts' = Append(attempts, file)
                 /\ requests' = IF RequestIssued THEN Append(requests, file) ELSE requests
                 /\ lastOutcome' = outcome
                 /\ lastLog' = LogFile(outcome)
                 /\ ptextOutcome' = IF i = PTextIndex THEN outcome ELSE ptextOutcome
                 /\ IF i = PTextIndex
                    THEN \E content \in PTextAfter(folderPath, resp) :
                            ptext' = [ptext EXCEPT ![folderPath] = content]
                    ELSE ptext' = ptext
                 /\ IF outcome = "200" \/ CaughtFile(outcome)
                    THEN /\ pc' = IF last THEN "open" ELSE "files"
                         /\ i' = IF last THEN 0 ELSE i + 1
                         /\ filesReturned' = last
                         /\ error' = error
                         /\ terminated' = terminated
                    ELSE /\ pc' = "fatal"
                         /\ i' = 0
                         /\ filesReturned' = FALSE
                         /\ error' = "fetch"
                         /\ terminated' = terminated \cup {folderPath}
            ELSE /\ pc' = IF last THEN "open" ELSE "files"
                 /\ i' = IF last THEN 0 ELSE i + 1
                 /\ filesReturned' = last
                 /\ UNCHANGED << attempts, requests, lastOutcome, lastLog, ptextOutcome, ptext, error, terminated >>
    /\ UNCHANGED << smartDlEnabled, sentinel, mirrored, folders, runs, meetingId, folderPath,
                    el, data, mkdirs, sentinelAtStart, retry, validURL,
                    slidesReturned, completed >>

(* ----------------------------- downloadSlides -------------------------- *)
\* mutant: downloadSlides wrapped in a handler that logs and goes on
OnMetadataError_Swallowed == "copy"

\* an exception raised by open or json.load (lines 82-83) is not handled
OnMetadataError == "fatal"

\* lines 82-84: open and parse the local presentation_text.json
OpenMetadata ==
    /\ pc = "open"
    /\ IF IsDoc(ptext[folderPath])
       THEN /\ data' = ptext[folderPath]
            /\ error' = error
            /\ terminated' = terminated
            /\ IF Len(ptext[folderPath]) > 0
               THEN /\ pc' = "element" /\ el' = 1
                    /\ UNCHANGED << slidesReturned, completed >>
               ELSE /\ pc' = "copy" /\ el' = 0
                    /\ slidesReturned' = TRUE
                    /\ completed' = IF filesReturned
                                    THEN completed \cup {folderPath}
                                    ELSE completed
       ELSE /\ pc' = OnMetadataError
            /\ error' = "metadata"
            /\ terminated' = terminated \cup {folderPath}
            /\ UNCHANGED << data, el, slidesReturned, completed >>
    /\ UNCHANGED << smartDlEnabled, sentinel, mirrored, ptext, folders, runs, meetingId,
                    folderPath, i, attempts, requests, mkdirs, lastOutcome,
                    lastLog, ptextOutcome, sentinelAtStart, retry, validURL,
                    filesReturned >>

\* lines 85-87: the key the for loop is at, and the length of its array
element(j) == data[j][1]

noSlides(j) == data[j][2]

\* lines 85-90: the element's directory is provisioned before its slides
ElementBegin ==
    /\ pc = "element"
    /\ Provision(<< folderPath, "presentation", StripSlash(element(el)) >>,
                 /\ IF noSlides(el) > 0
                    THEN pc' = "slide" /\ i' = 1
                    ELSE pc' = "thumbdir" /\ i' = 0
                 /\ UNCHANGED << el, slidesReturned, completed >>)
    /\ UNCHANGED << smartDlEnabled, sentinel, mirrored, ptext, runs, meetingId, folderPath,
                    data, attempts, requests, lastOutcome, lastLog, ptextOutcome,
                    sentinelAtStart, retry, validURL, filesReturned >>

\* one fetch of the expansion loops (lines 101-115, 131-145) that ended as
\* `outcome`; the loop goes on to `onward` unless the exception escapes
ExpansionFetch(downloadURL, savePath, outcome, caught, record, onward) ==
    /\ attempts' = Append(attempts, savePath)
    /\ requests' = IF RequestIssued THEN Append(requests, downloadURL) ELSE requests
    /\ lastOutcome' = outcome
    /\ lastLog' = record
    /\ IF outcome = "200" \/ caught
       THEN /\ onward
            /\ error' = error
            /\ terminated' = terminated
       ELSE /\ pc' = "fatal"
            /\ error' = "fetch"
            /\ terminated' = terminated \cup {folderPath}
            /\ UNCHANGED << i, el, slidesReturned, completed >>

\* lines 91-115: one iteration of the slide loop
DownloadSlide ==
    /\ pc = "slide"
    /\ \E resp \in Responses :
        ExpansionFetch(SlidePath(element(el), i), SlideSavePath(element(el), i),
                       TryBody(resp),
                       CaughtSlide(TryBody(resp)), LogSlide(TryBody(resp)),
                       /\ IF i = noSlides(el)
                          THEN pc' = "thumbdir" /\ i' = 0
                          ELSE pc' = "slide" /\ i' = i + 1
                       /\ UNCHANGED << el, slidesReturned, completed >>)
    /\ UNCHANGED << smartDlEnabled, sentinel, mirrored, ptext, folders, runs, meetingId,
                    folderPath, data, mkdirs, ptextOutcome, sentinelAtStart,
                    retry, validURL, filesReturned >>

\* the for loop of line 85 moves to the next element, or downloadSlides returns
NextElement ==
    IF el < Len(data)
    THEN /\ pc' = "element" /\ el' = el + 1 /\ i' = 0
         /\ UNCHANGED << slidesReturned, completed >>
    ELSE /\ pc' = "copy" /\ el' = 0 /\ i' = 0
         /\ slidesReturned' = TRUE
         /\ completed' = IF filesReturned THEN completed \cup {folderPath} ELSE completed

\* lines 117-121: the thumbnails directory is provisioned after the slides
ThumbDir ==
    /\ pc = "thumbdir"
    /\ Provision(<< folderPath, "presentation", StripSlash(element(el)), "thumbnails" >>,
                 IF noSlides(el) > 0
                 THEN /\ pc' = "thumb" /\ i' = 1
                      /\ UNCHANGED << el, slidesReturned, completed >>
                 ELSE NextElement)
    /\ UNCHANGED << smartDlEnabled, sentinel, mirrored, ptext, runs, meetingId, folderPath,
                    data, attempts, requests, lastOutcome, lastLog, ptextOutcome,
                    sentinelAtStart, retry, validURL, filesReturned >>

\* lines 122-145: one iteration of the thumbnail loop
DownloadThumb ==
    /\ pc = "thumb"
    /\ \E resp \in Responses :
        ExpansionFetch(ThumbPath(element(el), i), ThumbSavePath(element(el), i),
                       TryBody(resp),
                       CaughtThumb(TryBody(resp)), LogThumb(TryBody(resp)),
                       IF i = noSlides(el)
                       THEN NextElement
                       ELSE /\ pc' = "thumb" /\ i' = i + 1
                            /\ UNCHANGED << el, slidesReturned, completed >>)
    /\ UNCHANGED << smartDlEnabled, sentinel, mirrored, ptext, folders, runs, meetingId,
                    folderPath, data, mkdirs, ptextOutcome, sentinelAtStart,
                    retry, validURL, filesReturned >>

(* --------------------- player copy, Completion Marker ------------------ *)
\* line 302: copy_tree(player23, folderPath) returns, or raises (player23
\* missing, a file that cannot be written); the exception is not handled
CopyPlayer ==
    /\ pc = "copy"
    /\ \E ok \in BOOLEAN :
        IF ok
        THEN pc' = "mark" /\ error' = error /\ terminated' = terminated
        ELSE /\ pc' = "fatal" /\ error' = "copy"
             /\ terminated' = terminated \cup {folderPath}
    /\ UNCHANGED << smartDlEnabled, sentinel, mirrored, ptext, folders, runs, meetingId,
                    folderPath, i, el, data, attempts, requests, mkdirs,
                    lastOutcome, lastLog, ptextOutcome, sentinelAtStart,
                    retry, validURL, filesReturned, slidesReturned, completed >>

\* mutant: the todo of line 306 done, the sentinel only after clean fetches
MarkerCondition_AllDownloaded == lastOutcome = "200" /\ ptextOutcome = "200"

\* lines 304-308: the sentinel is written unconditionally (the check of the
\* downloaded files is a todo)
MarkerCondition == TRUE

\* lines 304-308: open(..., 'w') creates the zero-byte sentinel, or raises
WriteSentinel ==
    /\ pc = "mark"
    /\ IF MarkerCondition
       THEN \E ok \in BOOLEAN :
                IF ok
                THEN /\ sentinel' = [sentinel EXCEPT ![folderPath] = TRUE]
                     /\ mirrored' = [mirrored EXCEPT ![folderPath] = meetingId]
                     /\ pc' = "done" /\ error' = error
                     /\ terminated' = terminated \ {folderPath}
                ELSE /\ sentinel' = sentinel
                     /\ mirrored' = mirrored
                     /\ pc' = "fatal" /\ error' = "sentinel"
                     /\ terminated' = terminated \cup {folderPath}
       ELSE /\ pc' = "done"
            /\ UNCHANGED << sentinel, mirrored, error, terminated >>
    /\ UNCHANGED << smartDlEnabled, ptext, folders, runs, meetingId, folderPath,
                    i, el, data, attempts, requests, mkdirs, lastOutcome, lastLog,
                    ptextOutcome, sentinelAtStart, retry, validURL,
                    filesReturned, slidesReturned, completed >>

(* ------------------------------- a kill -------------------------------- *)
\* The process is killed (user interrupt, crash) while a run is under way.
\* What the process held in memory is gone; a file being written may be left
\* truncated.  The run's directory and what the sentinel check saw are kept
\* as history.
Kill ==
    /\ pc \in Running
    /\ pc' = "killed"
    /\ IF pc = "files" /\ i = PTextIndex /\ RequestIssued
       THEN \E content \in {ptext[folderPath], BadJson} :
                ptext' = [ptext EXCEPT ![folderPath] = content]
       ELSE ptext' = ptext
    /\ terminated' = terminated \cup {folderPath}
    /\ meetingId' = "" /\ i' = 0 /\ el' = 0 /\ data' = << >>
    /\ attempts' = << >> /\ requests' = << >> /\ mkdirs' = << >>
    /\ lastOutcome' = "none" /\ lastLog' = "none"
    /\ ptextOutcome' = "none"
    /\ error' = "none"
    /\ filesReturned' = FALSE /\ slidesReturned' = FALSE
    /\ UNCHANGED << smartDlEnabled, sentinel, mirrored, folders, runs, folderPath,
                    sentinelAtStart, retry, validURL, completed >>

(* ---------------------------- Session Lister --------------------------- *)
\* lines 221-222: hello lists every directory under downloadedMeetings/; the
\* loop of lines 227-236 appends a link for each of them
meetingFolders == { path[1] : path \in { q \in folders : Len(q) = 1 } }

(* ------------------------------- Next ---------------------------------- *)
Next ==
    \/ StartProcess
    \/ \E inputURL \in Urls, meetingNameWanted \in WantedNames :
            downloadScript(inputURL, meetingNameWanted)
    \/ CreateFolders
    \/ DownloadFile
    \/ OpenMetadata
    \/ ElementBegin
    \/ DownloadSlide
    \/ ThumbDir
    \/ DownloadThumb
    \/ CopyPlayer
    \/ WriteSentinel
    \/ Kill

Spec == Init /\ [][Next]_vars

(* ------------------------- what the claims speak of -------------------- *)
IsManifestPath(path) == \E k \in 1..Len(filesForDL) : filesForDL[k] = path

IsDerivedPath(path) == ~IsManifestPath(path)

ManifestAttempts == SelectSeq(attempts, IsManifestPath)

ExpansionAttempts == SelectSeq(attempts, IsDerivedPath)

ExpansionRequests == SelectSeq(requests, IsDerivedPath)

Failures == {"404", "HTTPError", "Exception"}

\* the run was ended by an exception or by a kill
CutShort == pc \in {"fatal", "killed"}

\* the requests the expansion phase owes a document: per element, in document
\* order, its slides in ascending order and then its thumbnails
RECURSIVE ExpansionOf(_, _)
ExpansionOf(doc, j) ==
    IF j > Len(doc) THEN << >>
    ELSE [n \in 1..doc[j][2] |-> SlidePath(doc[j][1], n)]
         \o [n \in 1..doc[j][2] |-> ThumbPath(doc[j][1], n)]
         \o ExpansionOf(doc, j + 1)

(* -------------------------------- C1 ----------------------------------- *)
\* C1: the sentinel is in a directory only if some run for that directory
\* took downloadFiles and downloadSlides to their end before writing it.
C1_SentinelOnlyAfterBothPhases == \A d \in Dirs : sentinel[d] => d \in completed

C1_Witness ==
    /\ pc = "done" /\ ~sentinelAtStart
    /\ sentinel[folderPath] /\ folderPath \in completed

C3_A404NeverStopsTheRun ==
    (ptextOutcome = "404" /\ pc \in {"done", "fatal"} /\ error # "copy")
        => (ManifestAttempts = filesForDL /\ (pc = "done" \/ error = "sentinel"))

(* -------------------------------- C4 ----------------------------------- *)
\* C4: a run that found the sentinel fetches nothing: no fetch is entered and
\* no request is made, in either phase.
C4_SentinelShortCircuits ==
    sentinelAtStart => (pc = "done" /\ attempts = << >> /\ requests = << >>)

C4_Witness == sentinelAtStart /\ pc = "done" /\ sentinel[folderPath]

(* -------------------------------- C5 ----------------------------------- *)
\* C5: a run cut short leaves no sentinel, and the next run for the same
\* directory starts over: it finds no sentinel and attempts the manifest from
\* its first entry, all 13 when the phase returns, local copies or not.
C5_RetryStartsOver ==
    /\ (CutShort /\ folderPath # "" /\ ~sentinelAtStart) => ~sentinel[folderPath]
    /\ retry => /\ ~sentinelAtStart
                /\ IsPrefix(ManifestAttempts, filesForDL)
                /\ filesReturned => ManifestAttempts = filesForDL

\* a retried run that fetched presentation_text.json again although the copy
\* of the earlier run was there (the fetch failed, the old document is left)
C5_Witness ==
    /\ retry /\ filesReturned
    /\ ptextOutcome \in {"404", "HTTPError"}
    /\ IsDoc(ptext[folderPath])

(* -------------------------------- C6 ----------------------------------- *)
\* C6: when the expansion phase cannot open or parse presentation_text.json
\* the run ends in that exception, with no slide or thumbnail fetch and no
\* sentinel; and no exception of a fetch ever ends a run.
C6_OnlyTheMetadataIsFatal ==
    /\ (filesReturned /\ pc # "open" /\ ~IsDoc(ptext[folderPath]))
            => /\ pc = "fatal" /\ error = "metadata"
               /\ ExpansionAttempts = << >>
               /\ ~slidesReturned
               /\ ~sentinel[folderPath]
    /\ pc = "fatal" => error \in {"metadata", "copy", "sentinel"}

C6_Witness ==
    /\ pc = "fatal" /\ error = "metadata"
    /\ ptextOutcome = "200" /\ ptext[folderPath] = BadJson

(* -------------------------------- C7 ----------------------------------- *)
\* C7: a call whose URL lacks the version or the session id exits before any
\* side effect: no directory is resolved or created, nothing is fetched.
C7_BadUrlExitsFirst ==
    ~validURL => /\ pc = "exited"
                 /\ folderPath = ""
                 /\ mkdirs = << >>
                 /\ attempts = << >>
                 /\ requests = << >>

C7_Witness == ~validURL /\ pc = "exited" /\ error = "exit"

(* -------------------------------- C8 ----------------------------------- *)
\* C8: when the expansion phase has returned, the requests it made are, per
\* element in document order, slide-1..slide-n then thumb-1..thumb-n, twice
\* the sum of the slide counts in all.
C8_ExpansionRequests ==
    slidesReturned => /\ ExpansionRequests = ExpansionOf(data, 1)
                      /\ Len(ExpansionRequests) = 2 * Sum([j \in 1..Len(data) |-> data[j][2]])

(* -------------------------------- C9 ----------------------------------- *)
\* C9: the manifest is attempted in its declared order, each entry once, and
\* a run that entered the manifest phase and was not killed leaves it only
\* with all 13 attempted, whatever each fetch did.
C9_ManifestInOrder ==
    /\ IsPrefix(ManifestAttempts, filesForDL)
    /\ pc = "files" => Len(ManifestAttempts) = i - 1
    /\ (\/ pc \in (Running \ {"mkdirs", "files"})
        \/ pc = "fatal"
        \/ (pc = "done" /\ ~sentinelAtStart))
            => (filesReturned /\ ManifestAttempts = filesForDL)

C9_Witness ==
    /\ pc = "open" /\ filesReturned
    /\ ptextOutcome = "HTTPError" /\ lastOutcome = "Exception"

(* -------------------------------- C10 ---------------------------------- *)
\* C10: a manifest fetch that failed with anything but a 404 has left a log
\* record with the diagnostic detail.
C10_EveryFailureIsLogged ==
    (pc \in {"files", "open"} /\ lastOutcome \in {"HTTPError", "Exception"})
        => lastLog = "exception"

(* -------------------------------- C11 ---------------------------------- *)
\* C11: unless this run's own fetch of presentation_text.json succeeded, the
\* expansion phase requests no slide and no thumbnail, whatever document an
\* earlier run left in the directory.
C11_ExpansionNeedsThisRunsDocument ==
    ptextOutcome # "200" => ExpansionRequests = << >>

(* -------------------------------- C12 ---------------------------------- *)
\* C12: a run that is short-circuited by a sentinel is a run for the session
\* the sentinel was written for: no other session resolves to that directory.
C12_OneSessionPerDirectory ==
    (sentinelAtStart /\ meetingId # "") => mirrored[folderPath] = meetingId

(* -------------------------------- C13 ---------------------------------- *)
\* C13: within one run no two fetches have the same local target path.
C13_DistinctTargets ==
    \A a, b \in 1..Len(attempts) : a # b => attempts[a] # attempts[b]

(* -------------------------------- C14 ---------------------------------- *)
\* the four directories downloadScript provisions for the run's folderPath
ProvisionedPaths == [k \in 1..Len(foldersToCreate) |-> JoinDir(folderPath, foldersToCreate[k])]

C15_ListingShowsOnlyCompleted ==
    pc \notin Running => \A m \in meetingFolders : sentinel[m]

(* -------------------------------- C16 ---------------------------------- *)
\* C16: whichever backend is selected, a fetch the remote answers with 200
\* ends as Success.
C16_BackendIndependent ==
    pc \in {"files", "slide", "thumb"} => TryBody("200") = "200"

(* -------------------------------- C17 ---------------------------------- *)
RECURSIVE LastSlash(_, _)
LastSlash(path, n) ==
    IF n = 0 THEN 0
    ELSE IF SubSeq(path, n, n) = "/" THEN n
    ELSE LastSlash(path, n - 1)

\* os.path.dirname of a relative path, "" for a file of the session root
DirName(path) ==
    LET n == LastSlash(path, Len(path))
    IN  IF n = 0 THEN "" ELSE SubSeq(path, 1, n - 1)

RECURSIVE JoinAll(_)
JoinAll(parts) ==
    IF parts = << >> THEN ""
    ELSE join(parts[1], JoinAll(Tail(parts)))

\* a directory of this run, relative to folderPath
RelativeDir(path) == StripSlash(JoinAll(Tail(path)))

\* C17: the directory of every fetch entered in a run has been the argument
\* of a createFolder call earlier in that run, and no manifest fetch is
\* entered before the four calls for the root, video, deskshare and
\* presentation.
C17_DirectoryBeforeFetch ==
    /\ \A k \in 1..Len(attempts) :
         \E m \in 1..Len(mkdirs) : RelativeDir(mkdirs[m]) = DirName(attempts[k])
    /\ attempts # << >> => IsPrefix(ProvisionedPaths, mkdirs)

\* the thumbnails of a second element are being fetched
C17_Witness ==
    /\ pc = "thumb" /\ el = 2 /\ element(el) = "e2"
    /\ attempts[Len(attempts)] = SlideSavePath("e2", noSlides(el))
    /\ mkdirs[Len(mkdirs)] = << folderPath, "presentation", "e2", "thumbnails" >>

====
